---- MODULE Spec2Model ----
(***************************************************************************)
(* LFUCache (lfu.py): a frequency-bucket ring of FreqNodes anchored at     *)
(* _freq0_node, each bucket owning a ring of KVNodes behind its kvlhead    *)
(* sentinel, and the dict _node_by_key.  Every public call is one action.  *)
(***************************************************************************)
EXTENDS Integers, Sequences, FiniteSets, TLC

\* ------------------------------------------------------------ bounds
NumKeys == 3
NumVals == 2
MaxMaxsize == 2
\* get is not issued on a key whose frequency has reached MaxFreq
MaxFreq == 2

\* the values put where maxsize is reassigned between calls
NumValsResized == 1

Keys == 1..NumKeys
Vals == 1..NumVals

\* ------------------------------------------------------------ the heap
\* Object identities.  A FreqNode built for frequency f is named by f and a
\* copy index (so that two live buckets of one frequency can be told apart);
\* its kvlhead sentinel and the KVNode built for a key are named likewise.
NumFreqNodes == 2 * (MaxFreq + 2)
FreqNodeId(f, i) == 2 * f + i
FreqNodes == 0..(NumFreqNodes - 1)
Kvlhead(fn) == NumFreqNodes + fn
Heads == {Kvlhead(fn) : fn \in FreqNodes}
KVNodeId(k) == 2 * NumFreqNodes + k
KVNodes == {KVNodeId(k) : k \in Keys}
Nodes == FreqNodes \cup Heads \cup KVNodes

freq0_node == FreqNodeId(0, 0)
missing == -1
Ellipsis == 0

\* prv, nxt: Node.prv, Node.nxt of every node; freq: FreqNodeData.freq;
\* freq_node, key, val: KVNodeData; node_by_key, maxsize: the LFUCache fields.
\* last is the public call just made (its arguments, return value, exception,
\* evictions, and whether its key was absent / present with the same or
\* another value, at which frequency); touched is the record of touches.
VARIABLES prv, nxt, freq, freq_node, key, val, node_by_key, maxsize, last, touched

vars == <<prv, nxt, freq, freq_node, key, val, node_by_key, maxsize, last, touched>>

\* The cache and every node it can reach, as one value; exc, ret and evicted
\* are the running call's exception, return value and the <<key, frequency>>
\* pairs it evicted.
Cache ==
  [prv |-> prv, nxt |-> nxt, freq |-> freq, freq_node |-> freq_node,
   key |-> key, val |-> val, node_by_key |-> node_by_key, maxsize |-> maxsize,
   exc |-> "none", ret |-> Ellipsis, evicted |-> <<>>]

\* ------------------------------------------------------------ Node
NodeInit(c, n) ==
  [c EXCEPT !.prv[n] = n, !.nxt[n] = n]

unlinked(c, n) ==
  c.nxt[n] = n /\ c.prv[n] = n

\* (the node's own links left pointing into the ring it was taken from)
UnlinkKeepsOwnLinks(c, n) ==
  LET c1 == [c EXCEPT !.nxt[c.prv[n]] = c.nxt[n]]
  IN  [c1 EXCEPT !.prv[c1.nxt[n]] = c1.prv[n]]

unlink(c, n) ==
  LET c1 == [c EXCEPT !.nxt[c.prv[n]] = c.nxt[n]]
      c2 == [c1 EXCEPT !.prv[c1.nxt[n]] = c1.prv[n]]
  IN  [c2 EXCEPT !.nxt[n] = n, !.prv[n] = n]

insert(c, n, new_nxt) ==
  LET old_nxt == c.nxt[n]
      c1 == [c EXCEPT !.nxt[n] = new_nxt]
      c2 == [c1 EXCEPT !.prv[new_nxt] = n]
      c3 == [c2 EXCEPT !.nxt[new_nxt] = old_nxt]
  IN  [c3 EXCEPT !.prv[old_nxt] = new_nxt]

\* No other node's prv or nxt is n.
unreferenced(c, n) ==
  \A m \in Nodes \ {n} : c.prv[m] # n /\ c.nxt[m] # n

\* The nodes met from start by nxt until start comes round again.
RECURSIVE Walk(_, _, _, _)
Walk(c, start, cur, acc) ==
  IF cur = start \/ Len(acc) >= Cardinality(Nodes) THEN acc
  ELSE Walk(c, start, c.nxt[cur], Append(acc, cur))

Ring(c, start) == Walk(c, start, c.nxt[start], <<>>)

\* ------------------------------------------------------------ KVNode, FreqNode
KVNodeFreq(c, n) == c.freq[c.freq_node[n]]

is_empty(c, fn) == unlinked(c, Kvlhead(fn))

\* FreqNode(freq=f): a new object, with a new unlinked kvlhead.
NewFreqNodeId(c, f) ==
  IF unlinked(c, FreqNodeId(f, 0)) /\ FreqNodeId(f, 0) # freq0_node
    THEN FreqNodeId(f, 0) ELSE FreqNodeId(f, 1)

FreqNodeInit(c, fn, f) ==
  LET c1 == NodeInit(c, Kvlhead(fn))
      c2 == [c1 EXCEPT !.freq_node[Kvlhead(fn)] = fn]
      c3 == NodeInit(c2, fn)
  IN  [c3 EXCEPT !.freq[fn] = f]

\* KVNode(freq_node=fn, key=k, val=v): a new unlinked object.
KVNodeInit(c, n, fn, k, v) ==
  LET c1 == NodeInit(c, n)
  IN  [c1 EXCEPT !.freq_node[n] = fn, !.key[n] = k, !.val[n] = v]

\* ------------------------------------------------------------ LFUCache
len(c) == Cardinality({k \in Keys : c.node_by_key[k] # missing})

contains(c, k) == c.node_by_key[k] # missing

cache_freq(c, k) == KVNodeFreq(c, c.node_by_key[k])

to_mapping(c) ==
  [k \in {x \in Keys : contains(c, x)} |-> c.val[c.node_by_key[k]]]

\* (a bucket left in the list when its last entry leaves)
UnlinkKeepsEmptyBucket(c, kvnode) == unlink(c, kvnode)

_unlink(c, kvnode) ==
  LET c1 == unlink(c, kvnode)
      fn == c1.freq_node[kvnode]
  IN  IF is_empty(c1, fn) /\ fn # freq0_node THEN unlink(c1, fn) ELSE c1

\* (the bucket's own frequency raised in place when no bucket for f + 1 follows)
GetIncFreqNodeInPlace(c, kvnode) ==
  LET cur_freq_node == c.freq_node[kvnode]
      target_freq == c.freq[cur_freq_node] + 1
      target_freq_node == c.nxt[cur_freq_node]
  IN  IF c.freq[target_freq_node] # target_freq /\ cur_freq_node # freq0_node
        THEN [c |-> [c EXCEPT !.freq[cur_freq_node] = target_freq],
              node |-> cur_freq_node]
      ELSE IF c.freq[target_freq_node] # target_freq
        THEN LET fn == NewFreqNodeId(c, target_freq)
             IN  [c |-> insert(FreqNodeInit(c, fn, target_freq), cur_freq_node, fn),
                  node |-> fn]
        ELSE [c |-> c, node |-> target_freq_node]

\* (a new bucket made on every promotion, a bucket for f + 1 following or not)
GetIncFreqNodeAlwaysNew(c, kvnode) ==
  LET cur_freq_node == c.freq_node[kvnode]
      target_freq == c.freq[cur_freq_node] + 1
      fn == NewFreqNodeId(c, target_freq)
  IN  [c |-> insert(FreqNodeInit(c, fn, target_freq), cur_freq_node, fn),
       node |-> fn]

\* (the successor bucket taken for the target without looking at its frequency)
GetIncFreqNodeUnchecked(c, kvnode) ==
  [c |-> c, node |-> c.nxt[c.freq_node[kvnode]]]

_get_or_create_inc_freq_node(c, kvnode) ==
  LET cur_freq_node == c.freq_node[kvnode]
      target_freq == c.freq[cur_freq_node] + 1
      target_freq_node == c.nxt[cur_freq_node]
  IN  IF c.freq[target_freq_node] # target_freq
        THEN LET fn == NewFreqNodeId(c, target_freq)
             IN  [c |-> insert(FreqNodeInit(c, fn, target_freq), cur_freq_node, fn),
                  node |-> fn]
        ELSE [c |-> c, node |-> target_freq_node]

\* (the node linked into the target ring, its bucket reference left behind)
MoveKeepsFreqNode(c, node, target_freq_node) ==
  insert(_unlink(c, node), Kvlhead(target_freq_node), node)

\* (the node linked in at the tail of the target ring)
MoveToTail(c, node, target_freq_node) ==
  LET c1 == _unlink(c, node)
      c2 == [c1 EXCEPT !.freq_node[node] = target_freq_node]
  IN  insert(c2, c2.prv[Kvlhead(target_freq_node)], node)

_move_to_target_freq(c, node, target_freq_node) ==
  LET c1 == _unlink(c, node)
      c2 == [c1 EXCEPT !.freq_node[node] = target_freq_node]
  IN  insert(c2, Kvlhead(target_freq_node), node)

\* (a default returned for an absent key instead of raising)
GetMissingReturnsDefault(c, k) ==
  IF c.node_by_key[k] = missing THEN [c EXCEPT !.ret = Ellipsis]
  ELSE LET kvnode == c.node_by_key[k]
           t == _get_or_create_inc_freq_node(c, kvnode)
           c1 == _move_to_target_freq(t.c, kvnode, t.node)
       IN  [c1 EXCEPT !.ret = c1.val[kvnode]]

get(c, k) ==
  IF c.node_by_key[k] = missing THEN [c EXCEPT !.exc = "KeyError"]
  ELSE LET kvnode == c.node_by_key[k]
           t == _get_or_create_inc_freq_node(c, kvnode)
           c1 == _move_to_target_freq(t.c, kvnode, t.node)
       IN  [c1 EXCEPT !.ret = c1.val[kvnode]]

\* LFUCache.freq(key): the dict lookup raises KeyError for an absent key.
LFUCache_freq(c, k) ==
  IF c.node_by_key[k] = missing THEN [c EXCEPT !.exc = "KeyError"]
  ELSE [c EXCEPT !.ret = cache_freq(c, k)]

\* _evict, lines 227-231: the bucket to evict from.
LfuNodeLast(c) ==
  IF is_empty(c, freq0_node) THEN c.prv[freq0_node] ELSE freq0_node

\* (the zero bucket taken even when it is empty)
LfuNodeZeroOnly(c) == freq0_node

LfuNode(c) ==
  IF is_empty(c, freq0_node) THEN c.nxt[freq0_node] ELSE freq0_node

\* _evict, line 232: the node to evict from that bucket.
EvictNodeNewest(c, lfu_node) == c.nxt[Kvlhead(lfu_node)]

EvictNode(c, lfu_node) == c.prv[Kvlhead(lfu_node)]

_evict(c) ==
  IF len(c) = 0 THEN [c EXCEPT !.exc = "AssertionError"]
  ELSE LET lfu_node == LfuNode(c)
           evict_node == EvictNode(c, lfu_node)
       IN  IF is_empty(c, freq0_node) /\ is_empty(c, lfu_node)
             THEN [c EXCEPT !.exc = "AssertionError"]
           ELSE IF unlinked(c, evict_node)
             THEN [c EXCEPT !.exc = "AssertionError"]
           ELSE LET f == KVNodeFreq(c, evict_node)
                    c1 == _unlink(c, evict_node)
                    k == c1.key[evict_node]
                IN  [c1 EXCEPT !.node_by_key[k] = missing,
                               !.evicted = Append(c1.evicted, <<k, f>>)]

NeedsEvictAtMaxsize(c) == len(c) >= c.maxsize

NeedsEvictOffByOne(c) == len(c) > c.maxsize + 1

NeedsEvict(c) == len(c) > c.maxsize

\* _evict, lines 226, 230, 233: what its three assert statements ask of the
\* cache it is run on.
EvictAsserts(c) ==
  /\ len(c) > 0
  /\ is_empty(c, freq0_node) =>
       (c.nxt[freq0_node] # freq0_node /\ ~is_empty(c, c.nxt[freq0_node]))
  /\ EvictNode(c, LfuNode(c)) \in KVNodes
  /\ ~unlinked(c, EvictNode(c, LfuNode(c)))

\* (an if in place of the while: at most one eviction per put)
EvictOnce(c) ==
  IF NeedsEvict(c) /\ c.exc = "none" THEN _evict(c) ELSE c

RECURSIVE EvictLoop(_)
EvictLoop(c) ==
  IF NeedsEvict(c) /\ c.exc = "none" THEN EvictLoop(_evict(c)) ELSE c

\* (the new node never registered in the dict)
PutMissingUnregistered(c, k, v) ==
  KVNodeInit(c, KVNodeId(k), freq0_node, k, v)

\* (the new node linked into the zero bucket before the eviction loop)
PutMissingLinked(c, k, v) ==
  LET node == KVNodeId(k)
      c1 == KVNodeInit(c, node, freq0_node, k, v)
      c2 == [c1 EXCEPT !.node_by_key[k] = node]
  IN  insert(c2, Kvlhead(freq0_node), node)

PutMissing(c, k, v) ==
  LET node == KVNodeId(k)
      c1 == KVNodeInit(c, node, freq0_node, k, v)
  IN  [c1 EXCEPT !.node_by_key[k] = node]

\* (the node's bucket reference left as it was)
PutExistingStaleBucket(c, node, v) ==
  LET c1 == _unlink(c, node)
  IN  [c1 EXCEPT !.val[node] = v]

PutExisting(c, node, v) ==
  LET c1 == _unlink(c, node)
  IN  [c1 EXCEPT !.val[node] = v, !.freq_node[node] = freq0_node]

\* (no early return for a value already stored)
ValEqNever(c, node, v) == FALSE

ValEq(c, node, v) == c.val[node] = v

\* put, lines 201-212: the cache as the while loop of line 213 finds it.
BeforeEvictLoop(c, k, v) ==
  IF c.node_by_key[k] = missing THEN PutMissing(c, k, v)
  ELSE PutExisting(c, c.node_by_key[k], v)

put(c, k, v) ==
  LET node == IF c.node_by_key[k] = missing THEN KVNodeId(k) ELSE c.node_by_key[k]
  IN  IF c.node_by_key[k] # missing /\ ValEq(c, node, v) THEN c
      ELSE LET c1 == IF c.node_by_key[k] = missing THEN PutMissing(c, k, v)
                     ELSE PutExisting(c, node, v)
               c2 == EvictLoop(c1)
           IN  IF c2.exc # "none" THEN c2
               ELSE insert(c2, Kvlhead(freq0_node), node)

\* ------------------------------------------------------------ the calls
\* The record of touches: touched[f] lists the keys whose last touch (insertion
\* as a new key, get, value-changing put) brought them to frequency f, the
\* most recently touched first.  It is kept from the calls made and the keys
\* found gone afterwards, never from the rings.
Without(s, ks) == SelectSeq(s, LAMBDA x : x \notin ks)

TouchedAt(t, k) == CHOOSE f \in DOMAIN t : \E i \in 1..Len(t[f]) : t[f][i] = k

TouchGet(t, k) ==
  LET f == TouchedAt(t, k)
  IN  [g \in DOMAIN t |-> IF g = f + 1 THEN <<k>> \o Without(t[g], {k})
                          ELSE Without(t[g], {k})]

TouchPut(t, k, gone) ==
  [g \in DOMAIN t |-> IF g = 0 THEN <<k>> \o Without(t[g], gone \cup {k})
                      ELSE Without(t[g], gone \cup {k})]

\* A KVNode that _evict dropped from the dict and that no node links to is
\* referenced by nothing once the call returns: the object is gone, and its
\* name is free for a later KVNode.
Collect(c) ==
  LET gone == {n \in {KVNodeId(c.evicted[i][1]) : i \in 1..Len(c.evicted)} :
                 /\ \A k \in Keys : c.node_by_key[k] # n
                 /\ \A m \in Nodes \ {n} : c.prv[m] # n /\ c.nxt[m] # n}
  IN  IF gone = {} THEN c
      ELSE [c EXCEPT
             !.prv = [n \in Nodes |-> IF n \in gone THEN n ELSE c.prv[n]],
             !.nxt = [n \in Nodes |-> IF n \in gone THEN n ELSE c.nxt[n]],
             !.freq_node = [n \in Heads \cup KVNodes |->
                              IF n \in gone THEN freq0_node ELSE c.freq_node[n]],
             !.key = [n \in KVNodes |-> IF n \in gone THEN Ellipsis ELSE c.key[n]],
             !.val = [n \in KVNodes |-> IF n \in gone THEN Ellipsis ELSE c.val[n]]]

Commit(c) ==
  /\ prv' = c.prv
  /\ nxt' = c.nxt
  /\ freq' = c.freq
  /\ freq_node' = c.freq_node
  /\ key' = c.key
  /\ val' = c.val
  /\ node_by_key' = c.node_by_key
  /\ maxsize' = c.maxsize

Init ==
  /\ prv = [n \in Nodes |-> n]
  /\ nxt = [n \in Nodes |-> n]
  /\ freq = [fn \in FreqNodes |-> fn \div 2]
  /\ freq_node = [n \in Heads \cup KVNodes |->
                    IF n \in Heads THEN n - NumFreqNodes ELSE freq0_node]
  /\ key = [n \in KVNodes |-> Ellipsis]
  /\ val = [n \in KVNodes |-> Ellipsis]
  /\ node_by_key = [k \in Keys |-> missing]
  /\ maxsize \in 1..MaxMaxsize
  /\ last = [op |-> "init", key |-> Ellipsis, val |-> Ellipsis,
             ret |-> Ellipsis, exc |-> "none", evicted |-> <<>>, was |-> "none",
             freq |-> missing]
  /\ touched = [f \in 0..MaxFreq |-> <<>>]

Get(k) ==
  /\ contains(Cache, k) => cache_freq(Cache, k) < MaxFreq
  /\ \E c \in {get(Cache, k)} :
       /\ Commit(c)
       /\ last' = [op |-> "get", key |-> k, val |-> Ellipsis, ret |-> c.ret,
                   exc |-> c.exc, evicted |-> c.evicted,
                   was |-> IF contains(Cache, k) THEN "present" ELSE "absent",
                   freq |-> IF contains(Cache, k) THEN cache_freq(Cache, k) ELSE missing]
       /\ touched' = IF contains(Cache, k) THEN TouchGet(touched, k) ELSE touched

Put(k, v) ==
  \E c \in {put(Cache, k, v)} : \E r \in {Collect(c)} :
    LET was == IF ~contains(Cache, k) THEN "absent"
               ELSE IF val[node_by_key[k]] = v THEN "same" ELSE "changed"
    IN  /\ Commit(r)
        /\ last' = [op |-> "put", key |-> k, val |-> v, ret |-> c.ret,
                    exc |-> c.exc, evicted |-> c.evicted, was |-> was,
                    freq |-> IF contains(Cache, k) THEN cache_freq(Cache, k) ELSE missing]
        /\ touched' = IF was = "same" THEN touched
                      ELSE TouchPut(touched, k,
                                    {x \in Keys : contains(Cache, x) /\ ~contains(c, x)})

Freq(k) ==
  \E c \in {LFUCache_freq(Cache, k)} :
    /\ Commit(c)
    /\ last' = [op |-> "freq", key |-> k, val |-> Ellipsis, ret |-> c.ret,
                exc |-> c.exc, evicted |-> c.evicted,
                was |-> IF contains(Cache, k) THEN "present" ELSE "absent",
                freq |-> IF contains(Cache, k) THEN cache_freq(Cache, k) ELSE missing]
    /\ touched' = touched

Next ==
  \/ \E k \in Keys : Get(k)
  \/ \E k \in Keys, v \in Vals : Put(k, v)

Spec == Init /\ [][Next]_vars

\* The calls of Spec and the frequency query.
NextFreq ==
  \/ Next
  \/ \E k \in Keys : Freq(k)

SpecFreq == Init /\ [][NextFreq]_vars

\* cache.maxsize = m, assigned from outside between two calls (maxsize is a
\* plain attribute, read anew by every put at line 213).
SetMaxsize(m) ==
  /\ m # maxsize
  /\ maxsize' = m
  /\ last' = [op |-> "maxsize", key |-> Ellipsis, val |-> Ellipsis,
              ret |-> Ellipsis, exc |-> "none", evicted |-> <<>>, was |-> "none",
              freq |-> missing]
  /\ UNCHANGED <<prv, nxt, freq, freq_node, key, val, node_by_key, touched>>

\* get and put on a cache whose maxsize is reassigned, to 1 or more; the
\* values put are drawn from 1..NumValsResized.
NextResized ==
  \/ \E k \in Keys : Get(k)
  \/ \E k \in Keys, v \in 1..NumValsResized : Put(k, v)
  \/ \E m \in 1..MaxMaxsize : SetMaxsize(m)

SpecResized == Init /\ [][NextResized]_vars

\* LFUCache.__init__ stores whatever maxsize it is given: the state after
\* construction with any maxsize from 1 - MaxMaxsize (zero and negative values
\* included) to MaxMaxsize.
InitAnyMaxsize ==
  /\ prv = [n \in Nodes |-> n]
  /\ nxt = [n \in Nodes |-> n]
  /\ freq = [fn \in FreqNodes |-> fn \div 2]
  /\ freq_node = [n \in Heads \cup KVNodes |->
                    IF n \in Heads THEN n - NumFreqNodes ELSE freq0_node]
  /\ key = [n \in KVNodes |-> Ellipsis]
  /\ val = [n \in KVNodes |-> Ellipsis]
  /\ node_by_key = [k \in Keys |-> missing]
  /\ maxsize \in (1 - MaxMaxsize)..MaxMaxsize
  /\ last = [op |-> "init", key |-> Ellipsis, val |-> Ellipsis,
             ret |-> Ellipsis, exc |-> "none", evicted |-> <<>>, was |-> "none",
             freq |-> missing]
  /\ touched = [f \in 0..MaxFreq |-> <<>>]

SpecAnyMaxsize == InitAnyMaxsize /\ [][Next]_vars

\* ------------------------------------------------------------ observations
Present(k) == node_by_key[k] # missing
PresentKeys == {k \in Keys : Present(k)}
Size == Cardinality(PresentKeys)
FreqOf(k) == freq[freq_node[node_by_key[k]]]
ValOf(k) == val[node_by_key[k]]
heap == <<prv, nxt, freq, freq_node, key, val, node_by_key, maxsize>>

\* The bucket list: the zero bucket, then the FreqNodes met from it by nxt.
BucketList == <<freq0_node>> \o Ring(Cache, freq0_node)
Buckets == {BucketList[i] : i \in 1..Len(BucketList)}

\* Following nxt from start comes back to start.
Closed(start) == Len(Ring(Cache, start)) < Cardinality(Nodes)

\* A bucket's entry ring from the head (kvlhead.nxt) to the tail (kvlhead.prv).
Entries(fn) == Ring(Cache, Kvlhead(fn))

\* The ring of every FreqNode.
Rings == [fn \in FreqNodes |-> Entries(fn)]

\* ------------------------------------------------------------ claims
\* C1: the number of cached keys never exceeds maxsize between public calls.
C1_SizeWithinMaxsize == Size <= maxsize

C1_Witness ==
  /\ last.op = "put"
  /\ last.was = "absent"
  /\ Len(last.evicted) = 1
  /\ Size = maxsize

\* The keys a step removes from the cache.
Removed == {x \in Keys : Present(x) /\ ~Present(x)'}

\* a's last touch is older than b's: both were last brought to one frequency,
\* b after a.
OlderTouch(a, b) ==
  \E f \in DOMAIN touched : \E i, j \in 1..Len(touched[f]) :
    touched[f][i] = b /\ touched[f][j] = a /\ i < j

\* C2: put of an absent key into a full cache removes exactly one key (one
\* run of the eviction loop, size unchanged), and a key is only ever removed
\* when no present key has a strictly lower frequency.
C2_Step ==
  /\ (last'.op = "put" /\ ~Present(last'.key) /\ Size = maxsize) =>
       /\ Cardinality(Removed) = 1
       /\ Len(last'.evicted) = 1
       /\ Removed = {last'.evicted[1][1]}
       /\ Size' = Size
  /\ \A e \in Removed : \A x \in PresentKeys : FreqOf(e) <= FreqOf(x)

\* C2: every step satisfies C2_Step: one eviction of a lowest-frequency key on
\* a put of an absent key into a full cache, and no other removal.
C2_EvictsOneLowestFrequency == [][C2_Step]_vars

C2_Witness ==
  /\ last.op = "put"
  /\ last.was = "absent"
  /\ Len(last.evicted) = 1
  /\ last.evicted[1][2] >= 1
  /\ \E x \in PresentKeys : FreqOf(x) > last.evicted[1][2]

\* C3: among the present keys tied with the evicted key's frequency, the
\* evicted key is the one whose last touch (insertion as a new key, get,
\* value-changing put; a same-value put is none) is the oldest.
C3_Step ==
  \A e \in Removed : \A x \in PresentKeys \ {e} :
    FreqOf(x) = FreqOf(e) => OlderTouch(e, x)

\* C3: every step satisfies C3_Step: the evicted key is the least recently
\* touched of the keys tied with it.
C3_EvictsOldestTouchAmongTies == [][C3_Step]_vars

C3_Witness ==
  /\ last.op = "put"
  /\ Len(last.evicted) = 1
  /\ last.evicted[1][2] = 1
  /\ \E x \in PresentKeys \ {last.key} : FreqOf(x) = last.evicted[1][2]

\* C4: after a completed put(k, v), k is in the cache and maps to v.
C4_PutKeyStays ==
  (last.op = "put" /\ last.exc = "none") =>
    Present(last.key) /\ ValOf(last.key) = last.val

C4_Witness ==
  /\ maxsize = 1
  /\ last.op = "put"
  /\ last.was = "absent"
  /\ Len(last.evicted) = 1
  /\ last.evicted[1][2] > 0
  /\ Present(last.key)

\* C5: get(k) on a present key returns the stored value and leaves freq(k)
\* exactly one higher.
C5_Step ==
  \A k \in Keys :
    (last'.op = "get" /\ last'.key = k /\ Present(k)) =>
      /\ last'.ret = ValOf(k)
      /\ Present(k)'
      /\ FreqOf(k)' = FreqOf(k) + 1

\* C5: every step satisfies C5_Step: get returns the stored value and adds
\* exactly 1 to the key's frequency.
C5_GetIncrementsFrequency == [][C5_Step]_vars

\* get moved the only entry of bucket 1 to a new highest bucket 2 while the
\* zero bucket holds another key.
C5_Witness ==
  /\ last.op = "get"
  /\ last.was = "present"
  /\ FreqOf(last.key) = 2
  /\ \A x \in PresentKeys \ {last.key} : FreqOf(x) = 0
  /\ Size = 2

\* get promoted a key into a bucket that already existed.
C5_WitnessExistingBucket ==
  /\ last.op = "get"
  /\ last.was = "present"
  /\ \E x \in PresentKeys \ {last.key} : FreqOf(x) = FreqOf(last.key)

\* C6: put(k, v2) on a present key whose stored value differs from v2 leaves
\* k present with value v2 and frequency 0.
C6_Step ==
  \A k \in Keys :
    (last'.op = "put" /\ last'.key = k /\ Present(k) /\ ValOf(k) # last'.val) =>
      /\ Present(k)'
      /\ ValOf(k)' = last'.val
      /\ FreqOf(k)' = 0

\* C6: every step satisfies C6_Step: a value-changing put leaves the key
\* present with the new value and frequency 0.
C6_OverwriteResetsFrequency == [][C6_Step]_vars

C6_Witness ==
  /\ last.op = "put"
  /\ last.was = "changed"
  /\ last.freq = 2
  /\ FreqOf(last.key) = 0
  /\ \E x \in PresentKeys \ {last.key} : FreqOf(x) = 2

\* C7: put(k, v) on a present key whose stored value is v changes nothing:
\* dict, values, bucket references, both layers of links.
C7_Step ==
  \A k \in Keys :
    (last'.op = "put" /\ last'.key = k /\ Present(k) /\ ValOf(k) = last'.val) =>
      heap' = heap

\* C7: every step satisfies C7_Step: a same-value put changes no part of the
\* cache.
C7_SameValuePutIsNoOp == [][C7_Step]_vars

\* a same-value put on a key of frequency > 0 that is not the newest of its
\* bucket, in a full cache.
C7_Witness ==
  /\ last.op = "put"
  /\ last.was = "same"
  /\ FreqOf(last.key) > 0
  /\ Size = maxsize
  /\ nxt[Kvlhead(freq_node[node_by_key[last.key]])] # node_by_key[last.key]

\* C8: put(k, v2) on a present key with a different value evicts nothing:
\* the key set and the size stay as they were.
C8_Step ==
  \A k \in Keys :
    (last'.op = "put" /\ last'.key = k /\ Present(k) /\ ValOf(k) # last'.val) =>
      /\ PresentKeys' = PresentKeys
      /\ Size' = Size
      /\ last'.evicted = <<>>

\* C8: every step satisfies C8_Step: a value-changing put removes no key.
C8_OverwriteEvictsNothing == [][C8_Step]_vars

C8_Witness ==
  /\ last.op = "put"
  /\ last.was = "changed"
  /\ Size = maxsize
  /\ maxsize > 1

\* C9: put(k, v) of an absent key leaves k present with value v and
\* frequency 0; below capacity it removes no key and the size grows by 1.
C9_Step ==
  \A k \in Keys :
    (last'.op = "put" /\ last'.key = k /\ ~Present(k)) =>
      /\ Present(k)'
      /\ ValOf(k)' = last'.val
      /\ FreqOf(k)' = 0
      /\ Size < maxsize => (Removed = {} /\ Size' = Size + 1)

\* C9: every step satisfies C9_Step: a new key ends present with its value and
\* frequency 0, and below capacity the size grows by exactly 1.
C9_NewKeyStartsAtZero == [][C9_Step]_vars

\* a new key put below capacity while another key has a higher frequency
C9_Witness ==
  /\ last.op = "put"
  /\ last.was = "absent"
  /\ last.evicted = <<>>
  /\ FreqOf(last.key) = 0
  /\ Size = 2
  /\ \E x \in PresentKeys : FreqOf(x) > 0

\* a new key put into a full cache, an eviction from a non-zero bucket
C9_WitnessFull ==
  /\ last.op = "put"
  /\ last.was = "absent"
  /\ Len(last.evicted) = 1
  /\ last.evicted[1][2] > 0
  /\ FreqOf(last.key) = 0

\* C10: a call on key k changes neither the value nor the frequency of any
\* other key that is still present, and get removes no key; a key's frequency
\* changes only by +1 (its own get) or to 0 (its own value-changing put).
C10_Step ==
  /\ \A x \in Keys \ {last'.key} :
       (Present(x) /\ Present(x)') => (ValOf(x)' = ValOf(x) /\ FreqOf(x)' = FreqOf(x))
  /\ \A x \in Keys \ {last'.key} : Present(x)' => Present(x)
  /\ last'.op = "get" => PresentKeys' = PresentKeys
  /\ last'.op = "get" => \A x \in PresentKeys : ValOf(x)' = ValOf(x)
  /\ \A x \in Keys :
       (Present(x) /\ Present(x)' /\ FreqOf(x)' # FreqOf(x)) =>
         \/ last'.op = "get" /\ last'.key = x /\ FreqOf(x)' = FreqOf(x) + 1
         \/ /\ last'.op = "put" /\ last'.key = x
            /\ ValOf(x) # last'.val /\ FreqOf(x)' = 0

\* C10: every step satisfies C10_Step: a call on k leaves the other keys'
\* values and frequencies alone.
C10_OtherKeysUntouched == [][C10_Step]_vars

\* get on one of two keys sharing a non-zero bucket
C10_Witness ==
  /\ last.op = "get"
  /\ last.was = "present"
  /\ FreqOf(last.key) = 2
  /\ \E x \in PresentKeys \ {last.key} : FreqOf(x) = 1

\* C11: a get or a freq on a key that is not cached raises KeyError and
\* changes nothing in the cache.
C11_Step ==
  \A k \in Keys :
    (last'.op \in {"get", "freq"} /\ last'.key = k /\ ~Present(k)) =>
      (last'.exc = "KeyError" /\ heap' = heap)

\* C11: every step satisfies C11_Step: get(k) and freq(k) on an absent k fail
\* with KeyError and leave keys, values, frequencies, bucket list and rings
\* as they were.
C11_AbsentKeyFailsUnchanged == [][C11_Step]_vars

\* freq on an absent key of a full cache that holds a promoted key
C11_Witness ==
  /\ last.op = "freq"
  /\ last.exc = "KeyError"
  /\ ~Present(last.key)
  /\ Size = maxsize
  /\ \E x \in PresentKeys : FreqOf(x) > 0

\* get on an absent key of such a cache
C11_WitnessGet ==
  /\ last.op = "get"
  /\ last.exc = "KeyError"
  /\ ~Present(last.key)
  /\ Size = maxsize
  /\ \E x \in PresentKeys : FreqOf(x) > 0

\* C12: construction with maxsize < 1 is refused, so every cache that exists
\* was built with maxsize >= 1.
C12_NonPositiveMaxsizeRefused == maxsize >= 1

\* C14: the frequencies of the bucket list, read from the zero bucket by nxt,
\* are strictly increasing (hence pairwise different), and the key of a
\* completed get sits in a bucket other than the zero bucket whose frequency
\* is the key's earlier frequency plus one.
C14_BucketsStrictlyIncreasing ==
  LET list == BucketList
  IN  /\ freq[freq0_node] = 0
      /\ \A i \in 1..(Len(list) - 1) : freq[list[i]] < freq[list[i + 1]]
      /\ (last.op = "get" /\ last.exc = "none") =>
           /\ \E i \in 2..Len(list) : list[i] = freq_node[node_by_key[last.key]]
           /\ freq[freq_node[node_by_key[last.key]]] = last.freq + 1

\* get on a key of the last bucket, which another key shared with it: a new
\* last bucket follows the old one
C14_Witness ==
  /\ last.op = "get"
  /\ last.freq = 1
  /\ Len(BucketList) = 3
  /\ nxt[freq_node[node_by_key[last.key]]] = freq0_node
  /\ freq[BucketList[2]] = 1

\* get on a key of frequency 0 while a bucket for frequency 1 exists: the key
\* joins that bucket
C14_WitnessExistingBucket ==
  /\ last.op = "get"
  /\ last.freq = 0
  /\ Len(Entries(freq_node[node_by_key[last.key]])) = 2

\* C15: the zero bucket is in the bucket list (the list read from it by nxt
\* comes back to it, and holds FreqNodes only), and every bucket of the list
\* with a frequency above 0 has an entry in its ring.
C15_ZeroBucketStaysOthersNonEmpty ==
  LET buckets == Buckets
  IN  /\ Closed(freq0_node)
      /\ buckets \subseteq FreqNodes
      /\ \A fn \in buckets : freq[fn] > 0 => nxt[Kvlhead(fn)] # Kvlhead(fn)

\* get took the last entry out of the bucket for frequency 1: the list is the
\* empty zero bucket and the bucket for frequency 2
C15_Witness ==
  /\ last.op = "get"
  /\ last.freq = 1
  /\ Len(BucketList) = 2
  /\ freq[BucketList[2]] = 2
  /\ is_empty(Cache, freq0_node)

\* a value-changing put took the last entry out of a non-zero bucket
C15_WitnessPut ==
  /\ last.op = "put"
  /\ last.was = "changed"
  /\ last.freq > 0
  /\ Len(BucketList) = 1

\* an eviction took the last entry out of a non-zero bucket
C15_WitnessEvict ==
  /\ last.op = "put"
  /\ Len(last.evicted) = 1
  /\ last.evicted[1][2] > 0
  /\ Len(BucketList) = 1

\* C16: the dict and the rings hold the same entries.  Every cached key has
\* a KVNode of its own carrying that key; the node stands once in the ring of
\* the bucket its freq_node names, in no other ring, and that bucket is in
\* the bucket list.  Every node standing in the ring of any FreqNode is the
\* KVNode the dict holds for its key.
C16_IndexMatchesRings ==
  LET rings == Rings
      buckets == Buckets
  IN  /\ \A k \in PresentKeys :
           /\ node_by_key[k] \in KVNodes
           /\ key[node_by_key[k]] = k
           /\ freq_node[node_by_key[k]] \in buckets
           /\ \A fn \in FreqNodes :
                Cardinality({i \in 1..Len(rings[fn]) : rings[fn][i] = node_by_key[k]}) =
                  IF fn = freq_node[node_by_key[k]] THEN 1 ELSE 0
      /\ \A k1, k2 \in PresentKeys : node_by_key[k1] = node_by_key[k2] => k1 = k2
      /\ \A fn \in FreqNodes : \A i \in 1..Len(rings[fn]) :
           /\ rings[fn][i] \in KVNodes
           /\ node_by_key[key[rings[fn][i]]] = rings[fn][i]

\* after a put that evicted a promoted key, with the other cached key
\* promoted as well: the dict and the rings of two buckets agree
C16_Witness ==
  /\ last.op = "put"
  /\ Len(last.evicted) = 1
  /\ last.evicted[1][2] > 0
  /\ Size = 2
  /\ Len(BucketList) = 2
  /\ Len(Entries(BucketList[2])) = 1

\* The keys of a bucket's ring from head to tail.
KeysOf(fn) == LET ring == Entries(fn) IN [i \in 1..Len(ring) |-> key[ring[i]]]

\* C17: the ring of every bucket in the list, read from kvlhead.nxt to
\* kvlhead.prv, holds the keys last touched into that bucket's frequency from
\* the most recently to the least recently touched, no key is recorded for a
\* frequency without a bucket, and the entry touched by a completed get or
\* value-setting put is the head of its bucket's ring.
C17_RingOrderIsRecency ==
  /\ LET buckets == Buckets
     IN  /\ \A fn \in buckets : KeysOf(fn) = touched[freq[fn]]
         /\ \A f \in DOMAIN touched :
              (\A fn \in buckets : freq[fn] # f) => touched[f] = <<>>
  /\ (last.op \in {"put", "get"} /\ last.exc = "none" /\ last.was # "same") =>
       nxt[Kvlhead(freq_node[node_by_key[last.key]])] = node_by_key[last.key]

\* get brought a key to the head of a promoted bucket that held another key
C17_Witness ==
  /\ last.op = "get"
  /\ last.exc = "none"
  /\ Len(touched[1]) = 2
  /\ touched[1][1] = last.key
  /\ KeysOf(freq_node[node_by_key[last.key]])[2] # last.key

\* a value-changing put brought a promoted key back to the head of the zero
\* bucket, in front of a key inserted after that key's own insertion
C17_WitnessPut ==
  /\ last.op = "put"
  /\ last.was = "changed"
  /\ last.freq > 0
  /\ Len(KeysOf(freq0_node)) = 2
  /\ KeysOf(freq0_node)[1] = last.key

\* C18: in a cache built with maxsize >= 1 no put fails, and whenever the
\* loop of put is about to run _evict the three assertions of _evict hold:
\* the cache is not empty, an empty zero bucket is followed by another bucket
\* that is not empty, and the tail node chosen is a linked KVNode.
C18_EvictAssertionsHold ==
  /\ last.op = "put" => last.exc = "none"
  /\ \A k \in Keys, v \in Vals :
       LET c == BeforeEvictLoop(Cache, k, v)
       IN  NeedsEvict(c) => (EvictAsserts(c) /\ ~NeedsEvict(_evict(c)))

\* a put that ran _evict with the zero bucket empty, on a full cache of two
\* keys, and completed
C18_Witness ==
  /\ last.op = "put"
  /\ last.exc = "none"
  /\ Len(last.evicted) = 1
  /\ last.evicted[1][2] > 0
  /\ maxsize = 2
  /\ Size = 2
  /\ \E x \in PresentKeys : FreqOf(x) > 0

\* C20: prv and nxt are inverse to each other at every node, the bucket list
\* and the ring of every bucket in it come back to their sentinel, a FreqNode
\* that is not in the bucket list is self-linked with an empty ring and no
\* node links to it, and every KVNode a put evicts is, when put returns,
\* self-linked with no node linking to it.
C20_RingsWellFormed ==
  /\ \A x \in Nodes : prv[nxt[x]] = x /\ nxt[prv[x]] = x
  /\ Closed(freq0_node)
  /\ LET buckets == Buckets
     IN  /\ \A fn \in buckets : Closed(Kvlhead(fn))
         /\ \A fn \in FreqNodes \ buckets :
              /\ nxt[fn] = fn /\ prv[fn] = fn
              /\ \A m \in Nodes \ {fn} : prv[m] # fn /\ nxt[m] # fn
              /\ nxt[Kvlhead(fn)] = Kvlhead(fn) /\ prv[Kvlhead(fn)] = Kvlhead(fn)
  /\ \A k \in Keys \ PresentKeys, v \in Vals :
       Size >= maxsize =>
         LET c == put(Cache, k, v)
         IN  \A i \in 1..Len(c.evicted) :
               /\ unlinked(c, KVNodeId(c.evicted[i][1]))
               /\ unreferenced(c, KVNodeId(c.evicted[i][1]))

\* a put evicted the only key of the bucket for frequency 1, which stood
\* between the zero bucket and the bucket for frequency 2: the list closes
\* over the pruned bucket
C20_Witness ==
  /\ last.op = "put"
  /\ Len(last.evicted) = 1
  /\ last.evicted[1][2] = 1
  /\ Len(BucketList) = 2
  /\ freq[BucketList[2]] = 2
  /\ prv[freq0_node] = BucketList[2]

\* The invariants of the data model: size within maxsize, bucket
\* frequencies strictly increasing, no empty non-zero bucket, dict and rings
\* in agreement, ring order by recency, rings well linked.
DataModelInvariants ==
  /\ C1_SizeWithinMaxsize
  /\ C14_BucketsStrictlyIncreasing
  /\ C15_ZeroBucketStaysOthersNonEmpty
  /\ C16_IndexMatchesRings
  /\ C17_RingOrderIsRecency
  /\ \A x \in Nodes : prv[nxt[x]] = x /\ nxt[prv[x]] = x

C13_Step ==
  /\ last'.exc # "none" => heap' = heap
  /\ last'.exc = "none" => DataModelInvariants'
  /\ \A k \in Keys :
       (last'.op = "put" /\ last'.key = k /\ last'.exc # "none" /\ Present(k)') =>
         ~unlinked(Cache, node_by_key[k])'

\* C13: every put or get on a cache that construction returned either
\* completes with the data-model invariants holding or fails with the dict,
\* the bucket list and the rings as they were; no failed put leaves its key
\* in the dict with a node linked into no ring.
C13_NoPartialFailure == [][C13_Step]_vars

\* a failed put whose key is in the dict and whose node is in no ring
C13_StuckKey ==
  /\ last.op = "put"
  /\ last.exc = "AssertionError"
  /\ Present(last.key)
  /\ unlinked(Cache, node_by_key[last.key])

\* The i-th key evicted by a step is, of the keys cached before the step and
\* not evicted earlier in it, one of the lowest frequency, and of these the
\* one touched longest ago.
ChosenBySingleEvictionRule(ev, i) ==
  LET x == ev[i][1]
      rest == PresentKeys \ {ev[j][1] : j \in 1..(i - 1)}
  IN  /\ x \in rest
      /\ ev[i][2] = FreqOf(x)
      /\ \A y \in rest : FreqOf(y) >= FreqOf(x)
      /\ \A y \in rest \ {x} : FreqOf(y) = FreqOf(x) => OlderTouch(x, y)

C19_Step ==
  \A k \in Keys :
    (/\ last'.op = "put" /\ last'.key = k
     /\ ~Present(k) /\ maxsize >= 1 /\ Size > maxsize) =>
      /\ last'.exc = "none"
      /\ Len(last'.evicted) = Size + 1 - maxsize
      /\ \A i \in 1..Len(last'.evicted) : ChosenBySingleEvictionRule(last'.evicted, i)
      /\ Removed = {last'.evicted[i][1] : i \in 1..Len(last'.evicted)}
      /\ Size' = maxsize'
      /\ maxsize' = maxsize
      /\ Present(k)'
      /\ FreqOf(k)' = 0
      /\ ValOf(k)' = last'.val
      /\ DataModelInvariants'

\* C19: on a cache holding more keys than a maxsize lowered to m >= 1, put
\* of an absent key completes, evicts one key after another down to m keys
\* in all, each chosen as a single eviction would choose it, holds the new
\* key at frequency 0, and leaves the data-model invariants holding.
C19_LoweredMaxsizeEvictsDown == [][C19_Step]_vars

\* a put of an absent key that evicted two keys of different frequencies
\* after maxsize went from 2 to 1
C19_Witness ==
  /\ last.op = "put"
  /\ last.was = "absent"
  /\ Len(last.evicted) = 2
  /\ last.evicted[1][2] < last.evicted[2][2]
  /\ maxsize = 1
  /\ Size = 1

\* such a put that evicted two keys of one frequency
C19_WitnessTie ==
  /\ last.op = "put"
  /\ last.was = "absent"
  /\ Len(last.evicted) = 2
  /\ last.evicted[1][2] = last.evicted[2][2]
  /\ last.evicted[1][2] > 0
====
